---- MODULE Spec2Model ----
(***************************************************************************)
(* Model of the DeepPrint template renderer (src-tauri/src/renderer.rs):   *)
(*   - the render driver: topological sort over linkedTo, per-element Y    *)
(*     resolution against the layout cache, dispatch to the element        *)
(*     renderers, cache insert (specification Spec; SpecCalls for calls    *)
(*     of render one after the other; SpecText for text elements of any    *)
(*     shape; SpecKinds for elements of every kind; SpecDraw for tables   *)
(*     drawn from data);                                                   *)
(*   - the Interpolator (specification SpecInterp);                         *)
(*   - the table column-width resolver of draw_table (SpecTable);           *)
(*   - parse_color (SpecColor).                                             *)
(* f64 coordinates are modelled by exact integers (points), column widths  *)
(* by exact integers of ticks (Scale ticks to the point).                   *)
(***************************************************************************)
EXTENDS Integers, Sequences, FiniteSets, TLC

VARIABLES
    \* ---- render driver -------------------------------------------------
    elements,       \* template.canvas.elements: Seq of Element
    pc,             \* "unparsed" | "rejected" | "idle" | "rendering" | "done"
    sorted,         \* sorted_elements: Seq of indices into elements
    pos,            \* number of loop iterations of render completed
    layout_cache,   \* ctx.layout_cache: id -> <<y, height>>
    canvas,         \* draw calls received by the canvas, in order
    result,         \* what render returned
    visits,         \* the sort of the call: calls of visit, ids entered unmarked
    \* ---- interpolator --------------------------------------------------
    template,       \* the template string, a sequence of characters
    data,           \* the JSON data value
    output,         \* the string Interpolator::render returned
    ipc,            \* "off" | "ready" | "done"
    \* ---- table column widths ---------------------------------------------
    columns,        \* props.columns[i].width, a sequence of width declarations
    base_w,         \* base.w
    col_widths,     \* the resolved column widths
    tpc,            \* "off" | "ready" | "done"
    \* ---- colour parser ---------------------------------------------------
    hex,            \* the argument of parse_color, a sequence of characters
    color,          \* the Color it returned: <<r, g, b>>
    cpc             \* "off" | "ready" | "done"

render_vars == <<elements, pc, sorted, pos, layout_cache, canvas, result, visits>>
interp_vars == <<template, data, output, ipc>>
table_vars == <<columns, base_w, col_widths, tpc>>
color_vars == <<hex, color, cpc>>
vars == <<elements, pc, sorted, pos, layout_cache, canvas, result, visits,
          template, data, output, ipc, columns, base_w, col_widths, tpc,
          hex, color, cpc>>

\* ---------------------------------------------------------------------------
\* Bounds
\* ---------------------------------------------------------------------------

\* number of elements of a template
MaxElems == 3

\* ---------------------------------------------------------------------------
\* Template model (deep_print_schema.rs)
\* ---------------------------------------------------------------------------

\* Option::None of linked_to, and of the error slot of the sort
None == "none"

\* candidate element ids, in the order in which a template first uses them
IdSeq == <<"A", "B", "C">>

Ids == {IdSeq[i] : i \in 1..Len(IdSeq)}

\* an id no element of any template carries
Ghost == "ghost"

Min(a, b) == IF a < b THEN a ELSE b

Max(a, b) == IF a > b THEN a ELSE b

\* The i-th declared element takes one of the first i ids: every pattern of
\* equal and distinct ids occurs, once up to renaming.  The derived
\* Deserialize of Canvas checks nothing about ids, so equal ids occur.
IdChoices(i) == {IdSeq[j] : j \in 1..Min(i, Len(IdSeq))}

\* Option<String> linked_to: absent, the id of some element, or an unknown id
LinkChoices == {None, Ghost} \cup Ids

\* the variants of ElementData, by their `type` tag
ElementKinds ==
    {"text", "table", "image", "barcode", "qrcode", "line", "rect", "ellipse"}

\* Option<T>: None is the empty sequence, Some(v) the sequence of v alone
Some(v) == <<v>>

unwrap_or(opt, default) == IF opt = <<>> THEN default ELSE opt[1]

\* TableColumn: title and field are strings, width is an
\* Option<TableColumnWidth>
TableColumn(title, field, width) == [title |-> title, field |-> field, width |-> width]

\* TableProps: show_head and cell_padding are Options, border tells whether
\* the stroke width of the border (border_width, 2.83 by default) is above 0,
\* data is the expression naming the rows
TableProps(show_head, cell_padding, border, table_columns, data_path) ==
    [show_head |-> show_head, cell_padding |-> cell_padding, border |-> border,
     columns |-> table_columns, data |-> data_path]

NoTable == TableProps(<<>>, <<>>, FALSE, <<>>, <<>>)

\* The type-specific part of an element (ElementData and its props) with the
\* width of the element, and with the results the backends hand back for it:
\*   chars: the number of characters of the interpolated content
\*   content: "empty" | "text", the interpolated content / QR value
\*   encodes: whether QrCode::with_error_correction_level returns Ok
\*   size: QrcodeProps.size, the side of the painted QR code if given
TextBody(y, h, w, auto_height, chars, valign, line_break) ==
    [kind |-> "text", y |-> y, h |-> h, w |-> w, auto_height |-> auto_height,
     content |-> IF chars = 0 THEN "empty" ELSE "text", chars |-> chars,
     valign |-> valign, line_break |-> line_break,
     encodes |-> TRUE, stroke |-> TRUE, fill |-> FALSE, table |-> NoTable,
     size |-> <<>>]

QrBodySized(y, h, content, encodes, size) ==
    [kind |-> "qrcode", y |-> y, h |-> h, w |-> 100, auto_height |-> <<>>,
     content |-> content, chars |-> 0, valign |-> <<>>, line_break |-> <<>>,
     encodes |-> encodes, stroke |-> TRUE, fill |-> FALSE, table |-> NoTable,
     size |-> size]

QrBody(y, h, content, encodes) == QrBodySized(y, h, content, encodes, <<>>)

ShapeBody(kind, y, h, stroke, fill) ==
    [kind |-> kind, y |-> y, h |-> h, w |-> 100, auto_height |-> <<>>,
     content |-> "text", chars |-> 0, valign |-> <<>>, line_break |-> <<>>,
     encodes |-> TRUE, stroke |-> stroke, fill |-> fill, table |-> NoTable,
     size |-> <<>>]

TableBody(y, h, w, table) ==
    [kind |-> "table", y |-> y, h |-> h, w |-> w, auto_height |-> <<>>,
     content |-> "text", chars |-> 0, valign |-> <<>>, line_break |-> <<>>,
     encodes |-> TRUE, stroke |-> TRUE, fill |-> FALSE, table |-> table,
     size |-> <<>>]

\* The body of the element declared at position i in the templates of Spec:
\* a stroked rect, an auto-height text of one line whose measured height
\* differs from its declared h, a QR code whose value encodes.
BodyAt(i) ==
    CASE i % 3 = 1 -> ShapeBody("rect", 5, 10, TRUE, FALSE)
      [] i % 3 = 2 -> TextBody(2, 20, 100, Some(TRUE), 4, Some("top"), <<>>)
      [] OTHER -> QrBody(3, 30, "text", TRUE)

\* a QR code whose interpolated value the encoder rejects (too long)
BadQr == QrBody(4, 8, "text", FALSE)

\* a JSON element whose `type` names no variant of ElementData
UnknownType == ShapeBody("circle", 6, 6, TRUE, FALSE)

Element(id, linked_to, body) ==
    [id |-> id, linked_to |-> linked_to, y |-> body.y, h |-> body.h, w |-> body.w,
     body |-> body]

\* the JSON elements with the given ids and links; the element at position q
\* (if any) is an unencodable QR code, the one at position u (if any) has an
\* unknown type
Template(n, ids, links, q, u) ==
    [i \in 1..n |->
        Element(ids[i], links[i],
                IF i = q THEN BadQr ELSE IF i = u THEN UnknownType ELSE BodyAt(i))]

\* serde_json::from_str::<DeepPrintTemplate>, as far as the elements go: the
\* derived Deserialize rejects an element whose type tag names no variant;
\* it compares no two elements, so equal ids pass
from_str_ok(elems) ==
    \A i \in 1..Len(elems) : elems[i].body.kind \in ElementKinds

DeclaredIds(elems) == {elems[i].id : i \in 1..Len(elems)}

\* ---------------------------------------------------------------------------
\* topological_sort (renderer.rs 511-545)
\* ---------------------------------------------------------------------------

\* elem_map: HashMap collected from the elements in order, a later element
\* with the same id replacing the earlier one; the index of the entry
\* (mutation of elem_map: the first element declared with an id is kept)
elem_map_first(elems, id) ==
    CHOOSE i \in 1..Len(elems) :
        /\ elems[i].id = id
        /\ \A j \in 1..Len(elems) : elems[j].id = id => i <= j

elem_map(elems, id) ==
    CHOOSE i \in 1..Len(elems) :
        /\ elems[i].id = id
        /\ \A j \in 1..Len(elems) : elems[j].id = id => j <= i

\* state threaded through the DFS; err holds the id of the Err, or None;
\* calls counts the calls of visit, entered lists the ids visit found neither
\* visited nor marked, in the order it marked them
SortState0 ==
    [result |-> <<>>, visited |-> {}, temp_mark |-> {}, err |-> None, calls |-> 0,
     entered |-> <<>>]

\* (mutation of visit: an id already visited is entered again)
RECURSIVE visit_again(_, _, _)
visit_again(id, elems, st0) ==
    LET st == [st0 EXCEPT !.calls = @ + 1] IN
    IF id \in st.temp_mark THEN [st EXCEPT !.err = id]
    ELSE
        LET marked == [st EXCEPT !.temp_mark = @ \cup {id},
                                 !.entered = Append(@, id)] IN
        IF id \in DeclaredIds(elems)
        THEN LET e == elem_map(elems, id)
                 target == elems[e].linked_to
                 after == IF target # None THEN visit_again(target, elems, marked)
                          ELSE marked
             IN  IF after.err # None THEN after
                 ELSE [after EXCEPT !.temp_mark = @ \ {id},
                                    !.visited = @ \cup {id},
                                    !.result = Append(@, e)]
        ELSE marked

RECURSIVE visit(_, _, _)
visit(id, elems, st0) ==
    LET st == [st0 EXCEPT !.calls = @ + 1] IN
    IF id \in st.visited THEN st
    ELSE IF id \in st.temp_mark THEN [st EXCEPT !.err = id]
    ELSE
        LET marked == [st EXCEPT !.temp_mark = @ \cup {id},
                                 !.entered = Append(@, id)] IN
        IF id \in DeclaredIds(elems)
        THEN LET e == elem_map(elems, id)
                 target == elems[e].linked_to
                 after == IF target # None THEN visit(target, elems, marked)
                          ELSE marked
             IN  IF after.err # None THEN after
                 ELSE [after EXCEPT !.temp_mark = @ \ {id},
                                    !.visited = @ \cup {id},
                                    !.result = Append(@, e)]
        ELSE marked

RECURSIVE sort_loop(_, _, _)
sort_loop(i, elems, st) ==
    IF i > Len(elems) \/ st.err # None THEN st
    ELSE sort_loop(i + 1, elems,
                   IF elems[i].id \in st.visited THEN st
                   ELSE visit(elems[i].id, elems, st))

\* (mutation of topological_sort: the elements are left in declared order)
topological_sort_declared(elems) ==
    [SortState0 EXCEPT !.result = [i \in 1..Len(elems) |-> i]]

topological_sort(elems) == sort_loop(1, elems, SortState0)

\* ---------------------------------------------------------------------------
\* calculate_y (renderer.rs 547-555)
\* ---------------------------------------------------------------------------

\* (mutation of calculate_y: the anchor's measured height is left out)
calculate_y_top(element, cache) ==
    IF element.linked_to # None /\ element.linked_to \in DOMAIN cache
    THEN cache[element.linked_to][1] + element.y
    ELSE element.y

calculate_y(element, cache) ==
    IF element.linked_to # None /\ element.linked_to \in DOMAIN cache
    THEN LET prev_bottom == cache[element.linked_to][1] + cache[element.linked_to][2]
         IN  prev_bottom + element.y
    ELSE element.y

\* ---------------------------------------------------------------------------
\* JSON values (serde_json::Value) and strings
\* ---------------------------------------------------------------------------

\* A string is the sequence of its characters.
JNull == [t |-> "null"]

JBool(b) == [t |-> "bool", b |-> b]

JNum(n) == [t |-> "num", n |-> n]

JStr(s) == [t |-> "str", s |-> s]

JArr(a) == [t |-> "arr", a |-> a]

\* m: a function from keys (strings) to values
JObj(m) == [t |-> "obj", m |-> m]

EmptyObj == JObj([k \in {} |-> JNull])

Digits == <<"0", "1", "2", "3", "4", "5", "6", "7", "8", "9">>

\* decimal digits of a natural number
RECURSIVE NatStr(_)
NatStr(n) ==
    IF n < 10 THEN <<Digits[n + 1]>>
    ELSE Append(NatStr(n \div 10), Digits[(n % 10) + 1])

\* Number::to_string of an integer
number_to_string(n) == IF n < 0 THEN <<"-">> \o NatStr(-n) ELSE NatStr(n)

\* bool::to_string
bool_to_string(b) == IF b THEN <<"t", "r", "u", "e">> ELSE <<"f", "a", "l", "s", "e">>

\* ---------------------------------------------------------------------------
\* Interpolator (renderer.rs 562-606)
\* ---------------------------------------------------------------------------

Letters ==
    {"a", "b", "c", "d", "e", "f", "g", "h", "i", "j", "k", "l", "m",
     "n", "o", "p", "q", "r", "s", "t", "u", "v", "w", "x", "y", "z",
     "A", "B", "C", "D", "E", "F", "G", "H", "I", "J", "K", "L", "M",
     "N", "O", "P", "Q", "R", "S", "T", "U", "V", "W", "X", "Y", "Z"}

\* the class [a-zA-Z0-9_.] of the regex
IsPathChar(c) ==
    c \in Letters \cup {Digits[i] : i \in 1..10} \cup {"_", "."}

\* the class \s of the regex
IsSpace(c) == c \in {" ", "\t", "\n"}

RECURSIVE SkipSpace(_, _)
SkipSpace(s, i) ==
    IF i <= Len(s) /\ IsSpace(s[i]) THEN SkipSpace(s, i + 1) ELSE i

RECURSIVE SkipPath(_, _)
SkipPath(s, i) ==
    IF i <= Len(s) /\ IsPathChar(s[i]) THEN SkipPath(s, i + 1) ELSE i

\* The match of \{\{\s*([a-zA-Z0-9_.]+)\s*\}\} starting at position i:
\* end is the position after it (0: no match), path is capture group 1.
\* The three classes are disjoint, so the greedy match is the only one.
get_regex(s, i) ==
    IF i + 1 <= Len(s) /\ s[i] = "{" /\ s[i + 1] = "{"
    THEN LET p0 == SkipSpace(s, i + 2)
             p1 == SkipPath(s, p0)
             p2 == SkipSpace(s, p1)
         IN  IF p1 > p0 /\ p2 + 1 <= Len(s) /\ s[p2] = "}" /\ s[p2 + 1] = "}"
             THEN [end |-> p2 + 2, path |-> SubSeq(s, p0, p1 - 1)]
             ELSE [end |-> 0, path |-> <<>>]
    ELSE [end |-> 0, path |-> <<>>]

\* Value::get(&str): the member of an object under that key, if any
HasKey(v, key) == v.t = "obj" /\ key \in DOMAIN v.m

get_value_from_obj(v, key) ==
    IF HasKey(v, key)
    THEN LET found == v.m[key] IN
         CASE found.t = "str" -> found.s
           [] found.t = "num" -> number_to_string(found.n)
           [] found.t = "bool" -> bool_to_string(found.b)
           [] OTHER -> <<>>
    ELSE <<>>

\* Option<String> as the string, None being the empty string that
\* unwrap_or_default turns it into
get_value_by_path(v, path) == get_value_from_obj(v, path)

\* str::trim_matches(|c| c == '{' || c == '}' || c == ' ')
RECURSIVE trim_matches(_)
trim_matches(s) ==
    IF s # <<>> /\ s[1] \in {"{", "}", " "} THEN trim_matches(Tail(s))
    ELSE IF s # <<>> /\ s[Len(s)] \in {"{", "}", " "}
    THEN trim_matches(SubSeq(s, 1, Len(s) - 1))
    ELSE s

\* str::split('.'): the parts between the dots (one empty part for the
\* empty string)
RECURSIVE split(_)
split(path) ==
    LET dots == {i \in 1..Len(path) : path[i] = "."} IN
    IF dots = {} THEN <<path>>
    ELSE LET d == CHOOSE i \in dots : \A j \in dots : i <= j
         IN  <<SubSeq(path, 1, d - 1)>> \o split(SubSeq(path, d + 1, Len(path)))

\* the loop of get_array_by_path from part i on, and as_array
RECURSIVE get_array_from(_, _, _)
get_array_from(current, parts, i) ==
    IF i > Len(parts)
    THEN IF current.t = "arr" THEN <<current.a>> ELSE <<>>
    ELSE IF HasKey(current, parts[i])
    THEN get_array_from(current.m[parts[i]], parts, i + 1)
    ELSE <<>>

\* Option<&Vec<Value>>
get_array_by_path(v, raw_path) == get_array_from(v, split(trim_matches(raw_path)), 1)

\* replace_all from position i on
RECURSIVE replace_all(_, _, _)
replace_all(s, v, i) ==
    IF i > Len(s) THEN <<>>
    ELSE LET m == get_regex(s, i) IN
         IF m.end > 0
         THEN get_value_by_path(v, m.path) \o replace_all(s, v, m.end)
         ELSE <<s[i]>> \o replace_all(s, v, i + 1)

\* Interpolator::render
render(s, v) == replace_all(s, v, 1)

\* ---------------------------------------------------------------------------
\* Column widths of draw_table (renderer.rs 225-253)
\* ---------------------------------------------------------------------------

\* most columns of a table
MaxCols == 3

RECURSIVE Factorial(_)
Factorial(n) == IF n = 0 THEN 1 ELSE n * Factorial(n - 1)

\* An f64 is modelled by an exact integer number of ticks, Scale ticks to the
\* point: a multiple of 100 and of every column count, so that all the
\* divisions below are exact.
Scale == 100 * Factorial(MaxCols)

\* the f64 of an integer
F(n) == n * Scale

\* a * b
Mul(a, b) == (a * b) \div Scale

\* Option<TableColumnWidth>: None, Fixed(f64), Percentage(String)
AutoWidth == [shape |-> "none", w |-> 0, s |-> <<>>]

Fixed(w) == [shape |-> "fixed", w |-> w, s |-> <<>>]

Percentage(s) == [shape |-> "percentage", w |-> 0, s |-> s]

\* str::trim_end_matches('%')
RECURSIVE trim_end_matches(_)
trim_end_matches(s) ==
    IF s # <<>> /\ s[Len(s)] = "%" THEN trim_end_matches(SubSeq(s, 1, Len(s) - 1)) ELSE s

DigitValue(c) == CHOOSE d \in 0..9 : Digits[d + 1] = c

IsDigit(c) == \E d \in 0..9 : Digits[d + 1] = c

RECURSIVE DigitsValue(_)
DigitsValue(s) ==
    IF s = <<>> THEN 0
    ELSE 10 * DigitsValue(SubSeq(s, 1, Len(s) - 1)) + DigitValue(s[Len(s)])

\* str::parse::<f64>().unwrap_or(0.0) on the strings of the model: a string
\* of decimal digits is that number, and the other strings used here (empty,
\* letters) are no number
parse_or_zero(s) ==
    IF s # <<>> /\ \A i \in 1..Len(s) : IsDigit(s[i]) THEN F(DigitsValue(s)) ELSE 0

\* first pass: the vector col_widths with its markers
\* (a percentage p as -p, an absent width as 0)
first_pass(cols) ==
    [i \in 1..Len(cols) |->
        CASE cols[i].shape = "fixed" -> F(cols[i].w)
          [] cols[i].shape = "percentage" -> 0 - parse_or_zero(trim_end_matches(cols[i].s))
          [] OTHER -> 0]

RECURSIVE fixed_used(_, _)
fixed_used(cols, n) ==
    IF n = 0 THEN 0
    ELSE fixed_used(cols, n - 1) + (IF cols[n].shape = "fixed" THEN F(cols[n].w) ELSE 0)

remaining(cols, total_width) == Max(total_width - fixed_used(cols, Len(cols)), 0)

auto_cols_count(marks) == Cardinality({i \in 1..Len(marks) : marks[i] = 0})

\* second pass over the vector
resolve_widths(cols, total_width) ==
    LET marks == first_pass(cols)
        rem == remaining(cols, total_width)
        autos == auto_cols_count(marks)
    IN  [i \in 1..Len(marks) |->
            IF marks[i] < 0 THEN Mul(rem, (0 - marks[i]) \div 100)
            ELSE IF marks[i] = 0 /\ autos > 0 THEN rem \div autos
            ELSE marks[i]]

\* ---------------------------------------------------------------------------
\* Element renderers (renderer.rs 103-505): each returns
\*   [ok, height, calls]: Ok(height) or Err, and the draw calls it made
\* ---------------------------------------------------------------------------

Call(op, y) == [op |-> op, y |-> y]

\* The text backend (skia textlayout): a paragraph of `chars` characters of
\* one font size, laid out on `width`.  Every character advances half the
\* font size, a line holds the characters that fit in the width (one at
\* least), a line is as high as the font size, and the empty paragraph has
\* the height of one line.
paragraph_lines(chars, width, font_size) ==
    LET advance == font_size \div 2
        per_line == Max(1, width \div advance)
    IN  IF chars = 0 THEN 1 ELSE (chars + per_line - 1) \div per_line

\* paragraph.layout(width); paragraph.height()
paragraph_height(chars, width, font_size) ==
    paragraph_lines(chars, width, font_size) * font_size

\* font_size of a text element that sets none, nor a global style
DefaultFontSize == 12

\* (mutation of draw_text: the empty auto-height text is laid out and
\* painted like any other)
draw_text_no_skip(base, props, y) ==
    LET text_height == paragraph_height(props.chars, base.w, DefaultFontSize)
        auto == unwrap_or(props.auto_height, TRUE)
    IN  [ok |-> TRUE,
         height |-> IF auto THEN text_height ELSE base.h,
         calls |-> <<Call("paragraph", y)>>]

\* (mutation of draw_text: the paragraph is painted at y whatever
\* verticalAlign says)
draw_text_top(base, props, y) ==
    IF props.content = "empty" /\ unwrap_or(props.auto_height, TRUE)
    THEN [ok |-> TRUE, height |-> 0, calls |-> <<>>]
    ELSE [ok |-> TRUE,
          height |-> IF unwrap_or(props.auto_height, TRUE)
                     THEN paragraph_height(props.chars, base.w, DefaultFontSize)
                     ELSE base.h,
          calls |-> <<Call("paragraph", y)>>]

draw_text(base, props, y) ==
    IF props.content = "empty" /\ unwrap_or(props.auto_height, TRUE)
    THEN [ok |-> TRUE, height |-> 0, calls |-> <<>>]
    ELSE LET text_height == paragraph_height(props.chars, base.w, DefaultFontSize)
             draw_y == IF ~unwrap_or(props.auto_height, TRUE) /\ base.h > text_height
                       THEN CASE props.valign = Some("middle") ->
                                     y + (base.h - text_height) \div 2
                              [] props.valign = Some("bottom") ->
                                     y + (base.h - text_height)
                              [] OTHER -> y
                       ELSE y
         IN  [ok |-> TRUE,
              height |-> IF unwrap_or(props.auto_height, TRUE) THEN text_height ELSE base.h,
              calls |-> <<Call("paragraph", draw_y)>>]

\* font size of the paragraphs of table cells
CellFontSize == 10

\* cell_padding of a table that sets none
DefaultCellPadding == 5

\* measure_simple_text: the height of the text laid out on `width`
\* (laying out on a width and on its whole points gives the same lines)
measure_simple_text(text, width) ==
    paragraph_height(Len(text), width \div Scale, CellFontSize)

\* draw_cell_text: the paragraph is laid out on the width of the rect less
\* the padding on both sides and painted centred in the height of the rect;
\* the draw call records the rect and the height of the painted paragraph
draw_cell_text(text, rect, padding) ==
    LET avail_w == Max(rect.w - F(padding * 2), 0)
        text_h == paragraph_height(Len(text), avail_w \div Scale, CellFontSize)
        y == rect.y + (rect.h - text_h) \div 2
    IN  [op |-> "cell_text", y |-> y, text_h |-> text_h,
         row |-> rect.row, col |-> rect.col, row_y |-> rect.y, row_h |-> rect.h,
         w |-> rect.w]

\* the largest of the measured heights of the first n texts, 0 for none
RECURSIVE max_measured(_, _, _)
max_measured(texts, widths, n) ==
    IF n = 0 THEN 0
    ELSE Max(max_measured(texts, widths, n - 1),
             measure_simple_text(texts[n], widths[n]))

\* the cells of one row, column by column: the border rect if the stroke
\* width is above 0, then the text
RECURSIVE draw_cells(_, _, _, _, _, _, _)
draw_cells(texts, widths, n, current_y, row_height, props, r) ==
    IF n = 0 THEN <<>>
    ELSE LET rect == [y |-> current_y, h |-> row_height, w |-> widths[n],
                      row |-> r, col |-> n]
             padding == unwrap_or(props.cell_padding, DefaultCellPadding)
         IN  draw_cells(texts, widths, n - 1, current_y, row_height, props, r)
             \o (IF props.border
                 THEN <<[op |-> "stroke_rect", y |-> current_y, row |-> r, col |-> n,
                         row_h |-> row_height, w |-> widths[n]]>>
                 ELSE <<>>)
             \o <<draw_cell_text(texts[n], rect, padding)>>

\* one row (the header is row 0) of the given texts at current_y
draw_row(texts, widths, current_y, props, r) ==
    LET padding == unwrap_or(props.cell_padding, DefaultCellPadding)
        row_height == max_measured(texts, widths, Len(texts)) + padding * 2
    IN  [height |-> row_height,
         calls |-> draw_cells(texts, widths, Len(texts), current_y, row_height, props, r)]

\* the data rows from row r on, the cursor being at current_y
RECURSIVE draw_rows(_, _, _, _, _)
draw_rows(rows_data, widths, r, current_y, props) ==
    IF r > Len(rows_data) THEN [y |-> current_y, calls |-> <<>>]
    ELSE LET cell_texts == [i \in 1..Len(props.columns) |->
                               get_value_from_obj(rows_data[r], props.columns[i].field)]
             row == draw_row(cell_texts, widths, current_y, props, r)
             rest == draw_rows(rows_data, widths, r + 1, current_y + row.height, props)
         IN  [y |-> rest.y, calls |-> row.calls \o rest.calls]

\* (mutation of draw_table: the height returned leaves out the header row)
draw_table_rows_only(base, body, start_y) ==
    LET props == body.table
        rows_data == unwrap_or(get_array_by_path(data, props.data), <<>>)
        widths == resolve_widths([i \in 1..Len(props.columns) |-> props.columns[i].width],
                                 F(base.w))
        titles == [i \in 1..Len(props.columns) |-> props.columns[i].title]
        head == unwrap_or(props.show_head, 1) = 1
        header == draw_row(titles, widths, start_y, props, 0)
        first_y == IF head THEN start_y + header.height ELSE start_y
        rows == draw_rows(rows_data, widths, 1, first_y, props)
    IN  [ok |-> TRUE,
         height |-> rows.y - first_y,
         calls |-> (IF head THEN header.calls ELSE <<>>) \o rows.calls]

\* ctx.data is the variable data
draw_table(base, body, start_y) ==
    LET props == body.table
        rows_data == unwrap_or(get_array_by_path(data, props.data), <<>>)
        widths == resolve_widths([i \in 1..Len(props.columns) |-> props.columns[i].width],
                                 F(base.w))
        titles == [i \in 1..Len(props.columns) |-> props.columns[i].title]
        head == unwrap_or(props.show_head, 1) = 1
        header == draw_row(titles, widths, start_y, props, 0)
        rows == draw_rows(rows_data, widths, 1,
                          IF head THEN start_y + header.height ELSE start_y, props)
    IN  [ok |-> TRUE,
         height |-> rows.y - start_y,
         calls |-> (IF head THEN header.calls ELSE <<>>) \o rows.calls]

draw_line(base, props, y) ==
    [ok |-> TRUE, height |-> base.h, calls |-> <<Call("line", y)>>]

draw_rect(base, props, y) ==
    [ok |-> TRUE, height |-> base.h,
     calls |-> (IF props.fill THEN <<Call("fill_rect", y)>> ELSE <<>>)
               \o (IF props.stroke THEN <<Call("stroke_rect", y)>> ELSE <<>>)]

draw_ellipse(base, props, y) ==
    [ok |-> TRUE, height |-> base.h, calls |-> <<Call("oval", y)>>]

\* the side of the painted QR code: props.size, else the smaller of w and h
render_size(base, props) == unwrap_or(props.size, Min(base.w, base.h))

\* draw_qrcode returning the side of the painted code as the height
draw_qrcode_painted(base, props, y) ==
    IF props.content = "empty" THEN [ok |-> TRUE, height |-> base.h, calls |-> <<>>]
    ELSE IF ~props.encodes THEN [ok |-> FALSE, height |-> 0, calls |-> <<>>]
    ELSE [ok |-> TRUE, height |-> render_size(base, props),
          calls |-> <<Call("qr_modules", y) @@ [size |-> render_size(base, props)]>>]

\* An encoded QR code has 21 modules a side at least, so the early return on
\* modules_count == 0 is never taken.
draw_qrcode(base, props, y) ==
    IF props.content = "empty" THEN [ok |-> TRUE, height |-> base.h, calls |-> <<>>]
    ELSE IF ~props.encodes THEN [ok |-> FALSE, height |-> 0, calls |-> <<>>]
    ELSE [ok |-> TRUE, height |-> base.h,
          calls |-> <<Call("qr_modules", y) @@ [size |-> render_size(base, props)]>>]

draw_barcode(base, props, y) ==
    [ok |-> TRUE, height |-> base.h,
     calls |-> <<Call("stroke_rect", y), Call("paragraph", y)>>]

draw_image_placeholder(base, props, y) ==
    [ok |-> TRUE, height |-> base.h,
     calls |-> <<Call("fill_rect", y), Call("line", y), Call("line", y)>>]

\* the match of render_element
draw_element(element, actual_y) ==
    LET props == element.body IN
    CASE props.kind = "text" -> draw_text(element, props, actual_y)
      [] props.kind = "table" -> draw_table(element, props, actual_y)
      [] props.kind = "line" -> draw_line(element, props, actual_y)
      [] props.kind = "rect" -> draw_rect(element, props, actual_y)
      [] props.kind = "ellipse" -> draw_ellipse(element, props, actual_y)
      [] props.kind = "image" -> draw_image_placeholder(element, props, actual_y)
      [] props.kind = "barcode" -> draw_barcode(element, props, actual_y)
      [] props.kind = "qrcode" -> draw_qrcode(element, props, actual_y)

\* ---------------------------------------------------------------------------
\* render (renderer.rs 38-66) and render_element (69-97)
\* ---------------------------------------------------------------------------

Ok == [ok |-> TRUE, kind |-> "ok", id |-> None]

Err(kind, id) == [ok |-> FALSE, kind |-> kind, id |-> id]

\* no sort made yet
NoVisits == [calls |-> 0, entered |-> <<>>]

\* what a sort leaves of its DFS
Visits(s) == [calls |-> s.calls, entered |-> s.entered]

Pending == [ok |-> FALSE, kind |-> "pending", id |-> None]

EmptyCache == [x \in {} |-> <<0, 0>>]

\* draw calls of one element, tagged with the index of the element
Tagged(e, calls) == [i \in 1..Len(calls) |-> (calls[i] @@ [elem |-> e])]

\* main (test.rs 105-111): the template is parsed, and rendered only if the
\* parse succeeds
FromStr ==
    /\ pc = "unparsed"
    /\ pc' = IF from_str_ok(elements) THEN "idle" ELSE "rejected"
    /\ UNCHANGED <<elements, sorted, pos, layout_cache, canvas, result, visits>>
    /\ UNCHANGED interp_vars
    /\ UNCHANGED table_vars
    /\ UNCHANGED color_vars

\* (mutation of RenderStart: the Err of the sort is dropped and the elements
\* sorted so far are rendered)
RenderStart_unchecked ==
    /\ pc = "idle"
    /\ pc' = "rendering"
    /\ result' = Pending
    /\ sorted' = topological_sort(elements).result
    /\ visits' = Visits(topological_sort(elements))
    /\ layout_cache' = EmptyCache
    /\ pos' = 0
    /\ UNCHANGED <<elements, canvas>>
    /\ UNCHANGED interp_vars
    /\ UNCHANGED table_vars
    /\ UNCHANGED color_vars

\* (mutation of RenderStart: the layout cache of the previous call is kept)
RenderStart_kept_cache ==
    /\ pc = "idle"
    /\ LET s == topological_sort(elements) IN
       IF s.err # None
       THEN /\ pc' = "done"
            /\ result' = Err("cycle", s.err)
            /\ sorted' = <<>>
       ELSE /\ pc' = "rendering"
            /\ result' = Pending
            /\ sorted' = s.result
    /\ visits' = Visits(topological_sort(elements))
    /\ pos' = 0
    /\ UNCHANGED <<elements, canvas, layout_cache>>
    /\ UNCHANGED interp_vars
    /\ UNCHANGED table_vars
    /\ UNCHANGED color_vars

\* render up to the loop: fresh context, then the sort and its `?`
RenderStart ==
    /\ pc = "idle"
    /\ LET s == topological_sort(elements) IN
       IF s.err # None
       THEN /\ pc' = "done"
            /\ result' = Err("cycle", s.err)
            /\ sorted' = <<>>
       ELSE /\ pc' = "rendering"
            /\ result' = Pending
            /\ sorted' = s.result
    /\ visits' = Visits(topological_sort(elements))
    /\ layout_cache' = EmptyCache
    /\ pos' = 0
    /\ UNCHANGED <<elements, canvas>>
    /\ UNCHANGED interp_vars
    /\ UNCHANGED table_vars
    /\ UNCHANGED color_vars

\* (mutation of RenderElementStep: the Err of an element is dropped and the
\* loop goes on with the next element)
RenderElementStep_continue ==
    /\ pc = "rendering"
    /\ pos < Len(sorted)
    /\ LET e == sorted[pos + 1]
           element == elements[e]
           actual_y == calculate_y(element, layout_cache)
           drawn == draw_element(element, actual_y)
       IN  /\ canvas' = canvas \o Tagged(e, drawn.calls)
           /\ layout_cache' =
                 IF drawn.ok
                 THEN [x \in DOMAIN layout_cache \cup {element.id} |->
                          IF x = element.id THEN <<actual_y, drawn.height>>
                          ELSE layout_cache[x]]
                 ELSE layout_cache
           /\ pos' = pos + 1
           /\ UNCHANGED <<pc, result>>
    /\ UNCHANGED <<elements, sorted, visits>>
    /\ UNCHANGED interp_vars
    /\ UNCHANGED table_vars
    /\ UNCHANGED color_vars

\* one iteration of the loop: render_element and its `?`
RenderElementStep ==
    /\ pc = "rendering"
    /\ pos < Len(sorted)
    /\ LET e == sorted[pos + 1]
           element == elements[e]
           actual_y == calculate_y(element, layout_cache)
           drawn == draw_element(element, actual_y)
       IN  /\ canvas' = canvas \o Tagged(e, drawn.calls)
           /\ IF drawn.ok
              THEN /\ layout_cache' =
                        [x \in DOMAIN layout_cache \cup {element.id} |->
                            IF x = element.id THEN <<actual_y, drawn.height>>
                            ELSE layout_cache[x]]
                   /\ pos' = pos + 1
                   /\ UNCHANGED <<pc, result>>
              ELSE /\ pc' = "done"
                   /\ result' = Err("qr", element.id)
                   /\ UNCHANGED <<layout_cache, pos>>
    /\ UNCHANGED <<elements, sorted, visits>>
    /\ UNCHANGED interp_vars
    /\ UNCHANGED table_vars
    /\ UNCHANGED color_vars

\* the loop is exhausted: Ok(())
RenderReturn ==
    /\ pc = "rendering"
    /\ pos = Len(sorted)
    /\ pc' = "done"
    /\ result' = Ok
    /\ UNCHANGED <<elements, sorted, pos, layout_cache, canvas, visits>>
    /\ UNCHANGED interp_vars
    /\ UNCHANGED table_vars
    /\ UNCHANGED color_vars

InterpOff ==
    /\ template = <<>>
    /\ data = [t |-> "null"]
    /\ output = <<>>
    /\ ipc = "off"

TableOff ==
    /\ columns = <<>>
    /\ base_w = 0
    /\ col_widths = <<>>
    /\ tpc = "off"

ColorOff ==
    /\ hex = <<>>
    /\ color = <<>>
    /\ cpc = "off"

Init ==
    /\ \E n \in 0..MaxElems :
         \E ids \in [1..n -> Ids], links \in [1..n -> LinkChoices], q \in 0..n, u \in 0..n :
            /\ \A i \in 1..n : ids[i] \in IdChoices(i)
            /\ q = 0 \/ u = 0
            /\ elements = Template(n, ids, links, q, u)
    /\ pc = "unparsed"
    /\ sorted = <<>>
    /\ pos = 0
    /\ layout_cache = EmptyCache
    /\ canvas = <<>>
    /\ result = Pending
    /\ visits = NoVisits
    /\ InterpOff
    /\ TableOff
    /\ ColorOff

Next ==
    \/ FromStr
    \/ RenderStart
    \/ RenderElementStep
    \/ RenderReturn

Spec == Init /\ [][Next]_vars

\* ---------------------------------------------------------------------------
\* Templates with one text element of any shape (specification SpecText)
\* ---------------------------------------------------------------------------

\* Text elements: declared h below and above the measured heights, a width
\* on which the longer content wraps (30) and one on which it does not, empty
\* and non-empty content, autoHeight / verticalAlign / lineBreak absent and
\* present.  All heights are even, so that halving a difference is exact.
TextBodies ==
    { TextBody(2, h, w, auto_height, chars, valign, line_break) :
        h \in {10, 40}, w \in {30, 100}, chars \in {0, 12},
        auto_height \in {<<>>, Some(TRUE), Some(FALSE)},
        valign \in {<<>>, Some("top"), Some("middle"), Some("bottom"), Some("center")},
        line_break \in {<<>>, Some(0), Some(1)} }

\* up to MaxElems elements of distinct ids, each one unlinked or linked to
\* the element declared before it; the element at one position is a text
\* element of TextBodies
InitText ==
    /\ \E n \in 1..Min(MaxElems, Len(IdSeq)) :
         \E links \in [1..n -> {None} \cup Ids], t \in 1..n, body \in TextBodies :
            /\ \A i \in 1..n : links[i] = None \/ (i > 1 /\ links[i] = IdSeq[i - 1])
            /\ elements = [i \in 1..n |->
                              Element(IdSeq[i], links[i],
                                      IF i = t THEN body ELSE BodyAt(i))]
    /\ pc = "unparsed"
    /\ sorted = <<>>
    /\ pos = 0
    /\ layout_cache = EmptyCache
    /\ canvas = <<>>
    /\ result = Pending
    /\ visits = NoVisits
    /\ InterpOff
    /\ TableOff
    /\ ColorOff

SpecText == InitText /\ [][Next]_vars

\* ---------------------------------------------------------------------------
\* Repeated calls of render on one DeepPrintRenderer (specification SpecCalls)
\* ---------------------------------------------------------------------------

\* Templates handed to a later call.  They are chosen to read what an
\* earlier call may have left behind: links to ids the template does not
\* declare itself (but an earlier template did), a link to an id no template
\* declares, equal ids, an unencodable QR code behind its anchor, no element.
LaterTemplates ==
    { <<>>,
      Template(1, <<"A">>, <<"B">>, 0, 0),
      Template(1, <<"C">>, <<"A">>, 0, 0),
      Template(2, <<"A", "B">>, <<Ghost, "C">>, 0, 0),
      Template(2, <<"A", "A">>, <<None, "B">>, 0, 0),
      Template(2, <<"A", "B">>, <<None, "A">>, 2, 0),
      Template(3, <<"C", "B", "A">>, <<"B", "A", None>>, 0, 0) }

\* render has returned; the caller parses another template (or the same one
\* again), takes a new surface and calls render on it.  The variables of the
\* finished call keep their values until the new call writes them.
NextCall ==
    /\ pc = "done"
    /\ elements' \in LaterTemplates \cup {elements}
    /\ pc' = "unparsed"
    /\ canvas' = <<>>
    /\ UNCHANGED <<sorted, pos, layout_cache, result, visits>>
    /\ UNCHANGED interp_vars
    /\ UNCHANGED table_vars
    /\ UNCHANGED color_vars

\* the first template: up to MaxElems elements of distinct ids, any links, at
\* most one unencodable QR code
InitCalls ==
    /\ \E n \in 0..Min(MaxElems, Len(IdSeq)) :
         \E links \in [1..n -> LinkChoices], q \in 0..n :
            elements = Template(n, [i \in 1..n |-> IdSeq[i]], links, q, 0)
    /\ pc = "unparsed"
    /\ sorted = <<>>
    /\ pos = 0
    /\ layout_cache = EmptyCache
    /\ canvas = <<>>
    /\ result = Pending
    /\ visits = NoVisits
    /\ InterpOff
    /\ TableOff
    /\ ColorOff

NextCalls ==
    \/ FromStr
    \/ RenderStart
    \/ RenderElementStep
    \/ RenderReturn
    \/ NextCall

SpecCalls == InitCalls /\ [][NextCalls]_vars

\* ---------------------------------------------------------------------------
\* Interpolator::render, called on its own (specification SpecInterp)
\* ---------------------------------------------------------------------------

InterpRender ==
    /\ ipc = "ready"
    /\ output' = render(template, data)
    /\ ipc' = "done"
    /\ UNCHANGED <<template, data>>
    /\ UNCHANGED render_vars
    /\ UNCHANGED table_vars
    /\ UNCHANGED color_vars

\* ---- inputs of SpecInterp ---------------------------------------------------

\* most whitespace characters on either side of a path inside the braces
MaxPad == 1

Hello == <<"H", "e", "l", "l", "o", " ">>

user == <<"u", "s", "e", "r">>

name == <<"n", "a", "m", "e">>

Ada == <<"A", "d", "a">>

\* text around a token
Texts == {<<>>, Hello, <<"!">>, <<"}", " ", "{">>}

\* dotted paths
Paths ==
    { user \o <<".">> \o name, <<"x", ".", "y">>, <<"x">>, <<"n">>, <<"b">>,
      <<"z">>, <<"s">>, <<"q">>, <<"x", ".", "q">> }

RECURSIVE Spaces(_)
Spaces(n) == IF n = 0 THEN <<>> ELSE Append(Spaces(n - 1), " ")

Token(path, l, r) == <<"{", "{">> \o Spaces(l) \o path \o Spaces(r) \o <<"}", "}">>

\* data documents
DataDocs ==
    { JObj((user :> JObj(name :> JStr(Ada)))),
      EmptyObj,
      JObj((<<"x">> :> JObj(<<"y">> :> JNum(42))) @@ (<<"n">> :> JNum(-7))
           @@ (<<"b">> :> JBool(TRUE)) @@ (<<"z">> :> JNull)
           @@ (<<"s">> :> JStr(<<"h", "i">>))),
      JObj((<<"x">> :> JStr(<<"t", "o", "p">>))
           @@ (<<"x", ".", "y">> :> JStr(<<"d", "o", "t">>))
           @@ (<<"b">> :> JBool(FALSE)) @@ (<<"n">> :> JNum(105))),
      JObj((<<"x">> :> JArr(<<JNum(1)>>)) @@ (<<"s">> :> JStr(<<>>))),
      JStr(<<"x">>) }

RenderOff ==
    /\ elements = <<>>
    /\ pc = "off"
    /\ sorted = <<>>
    /\ pos = 0
    /\ layout_cache = EmptyCache
    /\ canvas = <<>>
    /\ result = Pending
    /\ visits = NoVisits

InitInterp ==
    /\ \E pre \in Texts, suf \in Texts, path \in Paths, l \in 0..MaxPad, r \in 0..MaxPad :
          template = pre \o Token(path, l, r) \o suf
    /\ data \in DataDocs
    /\ output = <<>>
    /\ ipc = "ready"
    /\ RenderOff
    /\ TableOff
    /\ ColorOff

NextInterp == InterpRender

SpecInterp == InitInterp /\ [][NextInterp]_vars

\* ---------------------------------------------------------------------------
\* The column widths of draw_table on their own (specification SpecTable)
\* ---------------------------------------------------------------------------

\* the column-width part of draw_table
DrawTableWidths ==
    /\ tpc = "ready"
    /\ col_widths' = resolve_widths(columns, F(base_w))
    /\ tpc' = "done"
    /\ UNCHANGED <<columns, base_w>>
    /\ UNCHANGED render_vars
    /\ UNCHANGED interp_vars
    /\ UNCHANGED color_vars

\* ---- inputs of SpecTable ------------------------------------------------------

Pct(a, b) == <<Digits[a + 1], Digits[b + 1], "%">>

WidthChoices ==
    { AutoWidth, Fixed(0), Fixed(50),
      Percentage(<<"0", "%">>), Percentage(Pct(2, 0)), Percentage(Pct(3, 0)),
      Percentage(Pct(5, 0)), Percentage(<<"1", "0", "0", "%">>) }

BaseWidths == {100, 200, 340}

InitTable ==
    /\ \E n \in 1..MaxCols : columns \in [1..n -> WidthChoices]
    /\ base_w \in BaseWidths
    /\ col_widths = <<>>
    /\ tpc = "ready"
    /\ RenderOff
    /\ InterpOff
    /\ ColorOff

NextTable == DrawTableWidths

SpecTable == InitTable /\ [][NextTable]_vars

\* ---------------------------------------------------------------------------
\* Templates with a table (specification SpecDraw)
\* ---------------------------------------------------------------------------

order == <<"o", "r", "d", "e", "r">>

items == <<"i", "t", "e", "m", "s">>

qty == <<"q", "t", "y">>

\* a text of n characters
RECURSIVE Text(_)
Text(n) == IF n = 0 THEN <<>> ELSE Append(Text(n - 1), "x")

\* two rows, the first with a name that fills a line of 50 points and wraps
\* on less
TwoRows ==
    <<JObj((name :> JStr(Text(10))) @@ (qty :> JNum(1))),
      JObj((name :> JStr(Text(2))) @@ (qty :> JNum(12)))>>

\* data documents: the rows under order.items; rows of which one is no
\* object under items, order being a string; order.items a string; an empty
\* array
TableDocs ==
    { JObj(order :> JObj(items :> JArr(TwoRows))),
      JObj((items :> JArr(<<JNum(42), TwoRows[1], TwoRows[2]>>)) @@ (order :> JStr(Text(3)))),
      JObj(order :> JObj(items :> JStr(Text(4)))),
      JObj(order :> JObj(items :> JArr(<<>>))) }

\* props.data
TablePaths ==
    { <<"{", "{">> \o order \o <<".">> \o items \o <<"}", "}">>,
      order \o <<".">> \o items,
      <<"{", "{", " ">> \o items \o <<" ", "}", "}">>,
      order,
      <<>> }

\* columns: a fixed width of 50 points, no width, half of what remains
ColumnChoices ==
    { TableColumn(Text(3), name, Fixed(50)),
      TableColumn(Text(12), qty, AutoWidth),
      TableColumn(<<>>, name, Percentage(Pct(5, 0))) }

\* a table of 1..MaxCols columns, 100 points wide, and a rect linked to it
InitDraw ==
    /\ \E n \in 1..MaxCols :
         \E cols \in [1..n -> ColumnChoices], show_head \in {<<>>, Some(0), Some(1)},
            cell_padding \in {<<>>, Some(0)}, border \in BOOLEAN, path \in TablePaths :
            elements =
              <<Element("A", None,
                        TableBody(3, 50, 100,
                                  TableProps(show_head, cell_padding, border, cols, path))),
                Element("B", "A", BodyAt(1))>>
    /\ data \in TableDocs
    /\ pc = "unparsed"
    /\ sorted = <<>>
    /\ pos = 0
    /\ layout_cache = EmptyCache
    /\ canvas = <<>>
    /\ result = Pending
    /\ visits = NoVisits
    /\ template = <<>>
    /\ output = <<>>
    /\ ipc = "off"
    /\ TableOff
    /\ ColorOff

SpecDraw == InitDraw /\ [][Next]_vars

\* ---------------------------------------------------------------------------
\* Inputs of SpecKinds: one element of any kind among up to MaxElems.

\* lines, rects, ellipses, images and barcodes of any paint, with and without
\* height
ShapeBodies ==
    { ShapeBody(kind, 4, h, stroke, fill) :
        kind \in {"line", "rect", "ellipse", "image", "barcode"}, h \in {0, 15},
        stroke \in BOOLEAN, fill \in BOOLEAN }

\* QR codes of an empty and of an encodable value, without a size and with a
\* size larger than h
QrBodies ==
    { QrBodySized(3, h, content, TRUE, size) :
        h \in {8, 30}, content \in {"empty", "text"}, size \in {<<>>, Some(50)} }

\* texts of no and of twelve characters (three lines of 12 points on a width
\* of 30), with every setting of autoHeight
KindTextBodies ==
    { TextBody(2, h, 30, auto_height, chars, valign, <<>>) :
        h \in {10, 40}, chars \in {0, 12},
        auto_height \in {<<>>, Some(TRUE), Some(FALSE)},
        valign \in {<<>>, Some("bottom")} }

\* tables of one or two columns on no rows, with and without a header
KindTableBodies ==
    { TableBody(3, 50, 100, TableProps(show_head, <<>>, FALSE, cols, <<>>)) :
        show_head \in {<<>>, Some(0)},
        cols \in {<<TableColumn(Text(3), name, Fixed(50))>>,
                  <<TableColumn(Text(12), qty, AutoWidth),
                    TableColumn(Text(3), name, Fixed(50))>>} }

KindBodies == ShapeBodies \cup QrBodies \cup KindTextBodies \cup KindTableBodies

\* up to MaxElems elements of distinct ids, each one unlinked or linked to
\* the element declared before it; the element at one position has a body of
\* KindBodies
InitKinds ==
    /\ \E n \in 1..Min(MaxElems, Len(IdSeq)) :
         \E links \in [1..n -> {None} \cup Ids], t \in 1..n, body \in KindBodies :
            /\ \A i \in 1..n : links[i] = None \/ (i > 1 /\ links[i] = IdSeq[i - 1])
            /\ elements = [i \in 1..n |->
                              Element(IdSeq[i], links[i],
                                      IF i = t THEN body ELSE BodyAt(i))]
    /\ pc = "unparsed"
    /\ sorted = <<>>
    /\ pos = 0
    /\ layout_cache = EmptyCache
    /\ canvas = <<>>
    /\ result = Pending
    /\ visits = NoVisits
    /\ InterpOff
    /\ TableOff
    /\ ColorOff

SpecKinds == InitKinds /\ [][Next]_vars

\* ---------------------------------------------------------------------------
\* parse_color (renderer.rs 608-617), specification SpecColor
\* ---------------------------------------------------------------------------

HexLower ==
    <<"0", "1", "2", "3", "4", "5", "6", "7", "8", "9", "a", "b", "c", "d", "e", "f">>

HexUpper ==
    <<"0", "1", "2", "3", "4", "5", "6", "7", "8", "9", "A", "B", "C", "D", "E", "F">>

\* char::to_digit(16)
IsHexDigit(c) == \E d \in 1..16 : HexLower[d] = c \/ HexUpper[d] = c

to_digit(c) == (CHOOSE d \in 1..16 : HexLower[d] = c \/ HexUpper[d] = c) - 1

RECURSIVE HexValue(_)
HexValue(s) ==
    IF s = <<>> THEN 0
    ELSE 16 * HexValue(SubSeq(s, 1, Len(s) - 1)) + to_digit(s[Len(s)])

\* u8::from_str_radix(s, 16) as an Option: the empty string and a lone sign
\* are errors, one leading '+' is skipped (a '-' is no digit of an unsigned
\* type), every other character must be a hex digit, and the value must fit
\* in 8 bits
from_str_radix(s) ==
    IF s = <<>> \/ s = <<"+">> \/ s = <<"-">> THEN <<>>
    ELSE LET digits == IF s[1] = "+" THEN Tail(s) ELSE s IN
         IF (\A i \in 1..Len(digits) : IsHexDigit(digits[i])) /\ HexValue(digits) < 256
         THEN Some(HexValue(digits))
         ELSE <<>>

\* Color::from_rgb
from_rgb(r, g, b) == <<r, g, b>>

\* Color::BLACK
BLACK == from_rgb(0, 0, 0)

parse_color(s) ==
    IF Len(s) = 7 /\ s[1] = "#"
    THEN LET r == unwrap_or(from_str_radix(SubSeq(s, 2, 3)), 0)
             g == unwrap_or(from_str_radix(SubSeq(s, 4, 5)), 0)
             b == unwrap_or(from_str_radix(SubSeq(s, 6, 7)), 0)
         IN  from_rgb(r, g, b)
    ELSE BLACK

ParseColor ==
    /\ cpc = "ready"
    /\ color' = parse_color(hex)
    /\ cpc' = "done"
    /\ UNCHANGED hex
    /\ UNCHANGED render_vars
    /\ UNCHANGED interp_vars
    /\ UNCHANGED table_vars

\* ---- inputs of SpecColor -------------------------------------------------------

\* two characters of a colour string: hex digits of either case, a sign
\* before or after a digit, a letter that is no hex digit, a blank
Components ==
    { <<"F", "F">>, <<"0", "0">>, <<"0", "a">>, <<"8", "0">>, <<"+", "F">>,
      <<"-", "1">>, <<"G", "0">>, <<"1", "g">>, <<"F", "+">>, <<" ", "7">> }

\* strings that are not '#' and six more characters
OtherShapes ==
    { <<>>, <<"r", "e", "d">>, <<"#">>, <<"#", "F", "F", "F">>,
      <<"F", "F", "0", "0", "0", "0">>, <<"0", "F", "F", "0", "0", "0", "0">>,
      <<"#", "F", "F", "0", "0", "0", "0", "0">>,
      <<"#", "F", "F", "0", "0", "0", "0", "F", "F">> }

InitColor ==
    /\ \/ \E r \in Components, g \in Components, b \in Components :
            hex = <<"#">> \o r \o g \o b
       \/ hex \in OtherShapes
    /\ color = <<>>
    /\ cpc = "ready"
    /\ RenderOff
    /\ InterpOff
    /\ TableOff

NextColor == ParseColor

SpecColor == InitColor /\ [][NextColor]_vars

\* ---------------------------------------------------------------------------
\* Properties of the render driver
\* ---------------------------------------------------------------------------

\* The element a linkedTo of element i resolves to: the entry of elem_map for
\* that id (the last element declared with it), 0 when no element has the id.
Target(elems, i) ==
    IF elems[i].linked_to \in DeclaredIds(elems)
    THEN elem_map(elems, elems[i].linked_to)
    ELSE 0

\* the element reached from i by following n links, 0 when the chain ends
RECURSIVE Walk(_, _, _)
Walk(elems, i, n) ==
    IF n = 0 \/ i = 0 THEN i ELSE Walk(elems, Target(elems, i), n - 1)

\* the linkedTo graph has a cycle (a self-link is a cycle of length 1)
HasCycle(elems) ==
    \E i \in 1..Len(elems), n \in 1..Len(elems) : Walk(elems, i, n) = i

NoDuplicateIds(elems) ==
    \A i, j \in 1..Len(elems) : elems[i].id = elems[j].id => i = j

\* i is the element its own id resolves to (not shadowed by a later duplicate)
Resolved(elems, i) == elem_map(elems, elems[i].id) = i

LinksUnknown(elems, i) ==
    elems[i].linked_to # None /\ elems[i].linked_to \notin DeclaredIds(elems)

NoBadQr(elems) ==
    \A i \in 1..Len(elems) :
        elems[i].body.kind = "qrcode" => elems[i].body.encodes \/ elems[i].body.content = "empty"

\* the draw calls element e made
CallsOf(e) == SelectSeq(canvas, LAMBDA c : c.elem = e)

\* C1: in every render, an element whose linkedTo names a declared id is
\* rendered only after the element that id resolves to has been rendered and
\* its cache entry inserted; and when render succeeds every such element and
\* its anchor have both been rendered, the anchor strictly earlier.
C1_TopologicalOrder ==
    /\ \A k \in 1..Len(sorted) :
          LET a == elements[sorted[k]] IN
          (k <= pos + 1 /\ a.linked_to \in DeclaredIds(elements)) =>
             /\ \E j \in 1..(k - 1) : j <= pos /\ sorted[j] = Target(elements, sorted[k])
             /\ a.linked_to \in DOMAIN layout_cache
    /\ (pc = "done" /\ result.ok) =>
          \A i \in 1..Len(elements) :
             (Resolved(elements, i) /\ Target(elements, i) # 0) =>
                \E j, k \in 1..pos :
                   j < k /\ sorted[k] = i /\ sorted[j] = Target(elements, i)

\* C1 witness: a successful render of a template of distinct ids in which an
\* element is declared before the element it is linked to
C1_Witness ==
    /\ pc = "done" /\ result.ok
    /\ NoDuplicateIds(elements)
    /\ \E i, j \in 1..Len(elements) :
          i < j /\ elements[i].linked_to = elements[j].id /\ canvas # <<>>

\* C2 (as claimed): for a template without cycle (and without unencodable QR
\* code), whatever number of elements are linked to unknown ids, render
\* returns no error and each of them is rendered at its own y.
C2_UnknownLinkIsUnlinked ==
    (pc = "done" /\ ~HasCycle(elements) /\ NoBadQr(elements)) =>
        /\ result.ok
        /\ \A i \in 1..Len(elements) :
              (Resolved(elements, i) /\ LinksUnknown(elements, i)) =>
                 /\ elements[i].id \in DOMAIN layout_cache
                 /\ layout_cache[elements[i].id][1] = elements[i].y

\* C3: a template whose linkedTo graph has a cycle gets a circular-dependency
\* error from render, with no draw call made and no cache entry written.
C3_CycleRejected ==
    (HasCycle(elements) /\ pc \in {"rendering", "done"}) =>
        /\ pc = "done"
        /\ ~result.ok /\ result.kind = "cycle"
        /\ canvas = <<>>
        /\ DOMAIN layout_cache = {}
        /\ pos = 0

\* C3 witness: render has returned on a template with a cycle of two
\* elements, and on one with a self-linked element
C3_Witness ==
    /\ pc = "done" /\ result.kind = "cycle"
    /\ \E i, j \in 1..Len(elements) :
          /\ i # j /\ Target(elements, i) = j /\ Target(elements, j) = i
          /\ \E k \in 1..Len(elements) : k # i /\ k # j /\ Target(elements, k) = k

\* C4: every rendered element whose linkedTo names a declared id is drawn at,
\* and cached with, y = cache[anchor].y + cache[anchor].height + own y.
C4_AnchorArithmetic ==
    \A k \in 1..pos :
        LET a == elements[sorted[k]] IN
        a.linked_to \in DeclaredIds(elements) =>
           LET anchor == layout_cache[a.linked_to]
               top == anchor[1] + anchor[2] + a.y
           IN  /\ layout_cache[a.id][1] = top
               /\ top # a.y
               /\ \A n \in 1..Len(canvas) :
                     (canvas[n].elem = sorted[k] /\ a.body.kind # "text") => canvas[n].y = top
               /\ \A n \in 1..Len(canvas) :
                     (canvas[n].elem = sorted[k] /\ a.body.kind = "text"
                        /\ unwrap_or(a.body.auto_height, TRUE))
                        => canvas[n].y = top

\* C4 witness: a chain of three elements has been rendered, the last one
\* below an anchor that is itself linked
C4_Witness ==
    /\ pos = 3
    /\ Target(elements, sorted[3]) = sorted[2]
    /\ Target(elements, sorted[2]) = sorted[1]
    /\ CallsOf(sorted[3]) # <<>>

\* C5 (as claimed): a template in which two elements carry the same id is
\* rejected when it is parsed; render is never run on it and nothing of it
\* is drawn.
C5_DuplicateIdsRejected ==
    (pc # "unparsed" /\ ~NoDuplicateIds(elements)) =>
        /\ pc = "rejected"
        /\ canvas = <<>>

\* C10 (as claimed): a QR element whose value cannot be encoded makes no draw
\* call, gets its declared h recorded in the cache, and render goes on and
\* returns success.
C10_QrFailureSilent ==
    (pc = "done" /\ result.kind # "cycle") =>
        /\ result.ok
        /\ \A k \in 1..Len(sorted) :
              LET a == elements[sorted[k]] IN
              (a.body.kind = "qrcode" /\ ~a.body.encodes) =>
                 /\ CallsOf(sorted[k]) = <<>>
                 /\ a.id \in DOMAIN layout_cache
                 /\ layout_cache[a.id][2] = a.h

\* rendering element e returns an error
Fails(e) == ~draw_element(elements[e], calculate_y(elements[e], layout_cache)).ok

\* the draw calls element e makes when it is drawn at the y of its cache entry
DrawnAs(e) ==
    Tagged(e, draw_element(elements[e], layout_cache[elements[e].id][1]).calls)

IsPrefix(s, t) == Len(s) <= Len(t) /\ SubSeq(t, 1, Len(s)) = s

\* C11: the loop never goes past an element whose rendering returns an error:
\* render returns that error at once.  Then every element before the failing
\* one in sorted order is drawn and cached, the failing one has no cache
\* entry, and no element after it is drawn or cached.  Draw calls once made
\* stay on the canvas.
C11_FirstErrorAborts ==
    /\ [](/\ \A k \in 1..pos : ~Fails(sorted[k])
          /\ (pc = "rendering" /\ pos < Len(sorted)) =>
                \A k \in (pos + 1)..Len(sorted) : CallsOf(sorted[k]) = <<>>
          /\ (pc = "done" /\ pos < Len(sorted)) =>
                /\ Fails(sorted[pos + 1])
                /\ result = Err("qr", elements[sorted[pos + 1]].id)
                /\ \A k \in 1..pos :
                      /\ elements[sorted[k]].id \in DOMAIN layout_cache
                      /\ CallsOf(sorted[k]) = DrawnAs(sorted[k])
                      /\ CallsOf(sorted[k]) # <<>>
                /\ \A k \in (pos + 1)..Len(sorted) :
                      /\ elements[sorted[k]].id \notin DOMAIN layout_cache
                      /\ CallsOf(sorted[k]) = <<>>
          /\ (pc = "done" /\ pos = Len(sorted) /\ result.kind # "cycle") => result.ok)
    /\ [][IsPrefix(canvas, canvas')]_vars

\* C11 witness: render has returned the error of an element that has an
\* element before it and an element after it in sorted order
C11_Witness ==
    /\ pc = "done" /\ result.kind = "qr"
    /\ pos = 1 /\ Len(sorted) = 3
    /\ canvas # <<>>

\* the loop of render from position k on, with the given cache and canvas
RECURSIVE render_loop(_, _, _, _, _)
render_loop(elems, sorted_elements, k, cache, drawn) ==
    IF k > Len(sorted_elements) THEN [result |-> Ok, canvas |-> drawn]
    ELSE LET element == elems[sorted_elements[k]]
             actual_y == calculate_y(element, cache)
             d == draw_element(element, actual_y)
         IN  IF d.ok
             THEN render_loop(elems, sorted_elements, k + 1,
                              [x \in DOMAIN cache \cup {element.id} |->
                                  IF x = element.id THEN <<actual_y, d.height>>
                                  ELSE cache[x]],
                              drawn \o Tagged(sorted_elements[k], d.calls))
             ELSE [result |-> Err("qr", element.id),
                   canvas |-> drawn \o Tagged(sorted_elements[k], d.calls)]

\* what render returns and draws for a template when no call preceded it
FirstRender(elems) ==
    LET s == topological_sort(elems) IN
    IF s.err # None THEN [result |-> Err("cycle", s.err), canvas |-> <<>>]
    ELSE render_loop(elems, s.result, 1, EmptyCache, <<>>)

\* C12: the layout cache is empty when a render call starts; during the call
\* an entry once inserted is neither changed nor removed, and the id an
\* iteration inserts has no entry yet.
C12_CacheWriteOnce ==
    /\ []((pc = "rendering" /\ pos = 0) => layout_cache = EmptyCache)
    /\ [][/\ pc = "idle" => layout_cache' = EmptyCache
          /\ pc = "rendering" =>
                /\ \A id \in DOMAIN layout_cache :
                      id \in DOMAIN layout_cache' /\ layout_cache'[id] = layout_cache[id]
                /\ pos' = pos + 1 =>
                      /\ elements[sorted[pos + 1]].id \notin DOMAIN layout_cache
                      /\ DOMAIN layout_cache' =
                            DOMAIN layout_cache \cup {elements[sorted[pos + 1]].id}
                /\ pos' = pos => layout_cache' = layout_cache]_vars

\* C12 witness: a call on a template in which two elements carry the same id
\* (only a later call is given one) has inserted its first entry
C12_Witness ==
    /\ pc = "rendering" /\ pos = 1
    /\ ~NoDuplicateIds(elements)
    /\ DOMAIN layout_cache = {elements[sorted[1]].id}
    /\ result = Pending

\* C13: whatever calls of render came before, a call returns the result and
\* makes the draw calls, with the same coordinates and in the same order,
\* that the first call on that template makes.
C13_HistoryFree ==
    /\ pc = "rendering" => IsPrefix(canvas, FirstRender(elements).canvas)
    /\ pc = "done" =>
          /\ result = FirstRender(elements).result
          /\ canvas = FirstRender(elements).canvas

\* C13 witness: a call on a template whose element C links to the id A,
\* which it does not declare, has drawn the element and returned; only a
\* later call is given this template, and A is an id of the earlier ones
C13_Witness ==
    /\ pc = "done" /\ result.ok
    /\ elements = Template(1, <<"C">>, <<"A">>, 0, 0)
    /\ canvas # <<>>

\* element i is e or depends on e through a chain of linkedTo
DependsOn(elems, i, e) == \E n \in 0..Len(elems) : Walk(elems, i, n) = e

\* the smallest declared index among e and the elements that depend on it
Key(elems, e) ==
    CHOOSE i \in 1..Len(elems) :
        /\ DependsOn(elems, i, e)
        /\ \A j \in 1..Len(elems) : DependsOn(elems, j, e) => i <= j

\* a comes before b in the reference order
RefBefore(elems, a, b) ==
    \/ Key(elems, a) < Key(elems, b)
    \/ Key(elems, a) = Key(elems, b) /\ a # b /\ DependsOn(elems, b, a)

\* the elements in the order of their first draw call
RECURSIVE DrawOrder(_)
DrawOrder(n) ==
    IF n = 0 THEN <<>>
    ELSE LET before == DrawOrder(n - 1) IN
         IF \E k \in 1..Len(before) : before[k] = canvas[n].elem THEN before
         ELSE Append(before, canvas[n].elem)

\* C20 (as claimed): when render succeeds every element of the template has
\* been drawn, once, in the reference order: by increasing key, and
\* dependency first among elements of equal key; a template without any
\* linkedTo is drawn in its declared order.
C20_ReferenceOrder ==
    (pc = "done" /\ result.ok) =>
        LET drawn == DrawOrder(Len(canvas)) IN
        /\ drawn = sorted
        /\ Len(drawn) = Len(elements)
        /\ \A j, k \in 1..Len(drawn) : j < k => RefBefore(elements, drawn[j], drawn[k])
        /\ (\A i \in 1..Len(elements) : elements[i].linked_to = None) =>
              drawn = [i \in 1..Len(elements) |-> i]

\* element e lies on a cycle of the linkedTo graph
OnCycle(elems, e) == \E n \in 1..Len(elems) : Walk(elems, e, n) = e

\* C21 (as claimed): whenever the sort returns a circular-dependency error
\* the linkedTo graph over the declared elements has a cycle and the id in the
\* error is the id of a declared element on a cycle; a template without a
\* cycle never gets this error.
C21_CycleErrorIsCycle ==
    (pc = "done" /\ result.kind = "cycle") =>
        /\ HasCycle(elements)
        /\ result.id \in DeclaredIds(elements)
        /\ OnCycle(elements, elem_map(elements, result.id))

\* the sort of the call has returned
Sorted == pc \in {"rendering", "done"}

\* C23: when the sort succeeds its output holds one element for every
\* declared id, and no other: each declared id occurs once, with the last
\* element declared under it; on pairwise distinct ids the output is a
\* permutation of the declared elements and a render that returns Ok leaves
\* one cache entry for each of them.
C23_OnePerId ==
    (Sorted /\ result.kind # "cycle") =>
        /\ \A k \in 1..Len(sorted) : sorted[k] \in 1..Len(elements)
        /\ \A id \in DeclaredIds(elements) :
              \E k \in 1..Len(sorted) :
                 /\ elements[sorted[k]].id = id
                 /\ \A j \in 1..Len(sorted) : elements[sorted[j]].id = id => j = k
                 /\ \A i \in 1..Len(elements) : elements[i].id = id => i <= sorted[k]
        /\ NoDuplicateIds(elements) =>
              /\ Len(sorted) = Len(elements)
              /\ \A i \in 1..Len(elements) : \E k \in 1..Len(sorted) : sorted[k] = i
              /\ (pc = "done" /\ result.ok) =>
                    /\ DOMAIN layout_cache = DeclaredIds(elements)
                    /\ Cardinality(DOMAIN layout_cache) = Len(elements)

\* C23 witness: a render of three elements of which the first and the last
\* share an id has returned Ok having sorted two elements, the last one and
\* the second
C23_Witness ==
    /\ pc = "done" /\ result.ok
    /\ Len(elements) = 3 /\ elements[1].id = elements[3].id
    /\ elements[2].id # elements[1].id
    /\ Len(sorted) = 2 /\ {sorted[1], sorted[2]} = {2, 3}

\* C24: the sort returns on every template, with an ordering or with an
\* error; visit finds no id unvisited and unmarked more than once, and is
\* called at most twice the number of elements times.
C24_SortBounded ==
    Sorted =>
        /\ visits.calls <= 2 * Len(elements)
        /\ \A i, j \in 1..Len(visits.entered) :
              visits.entered[i] = visits.entered[j] => i = j
        /\ \/ result.kind = "cycle" /\ sorted = <<>>
           \/ /\ result.kind # "cycle"
              /\ \A k \in 1..Len(sorted) : sorted[k] \in 1..Len(elements)
              /\ \A j, k \in 1..Len(sorted) : sorted[j] = sorted[k] => j = k

\* C24 witness: the sort of two elements linked to one id that no element
\* declares has returned the error after four calls of visit
C24_Witness ==
    /\ pc = "done" /\ result.kind = "cycle"
    /\ Len(elements) = 2 /\ NoDuplicateIds(elements)
    /\ \A i \in 1..2 : elements[i].linked_to \notin DeclaredIds(elements) \cup {None}
    /\ visits.calls = 4

\* ---------------------------------------------------------------------------
\* Properties of draw_text
\* ---------------------------------------------------------------------------

\* the text element is empty after interpolation and autoHeight is true or absent
EmptyAutoText(a) ==
    a.body.kind = "text" /\ a.body.chars = 0 /\ a.body.auto_height \in {<<>>, Some(TRUE)}

\* the y an element resolves to: below its anchor when it is linked to a
\* declared element, its own y otherwise
ResolvedY(a) ==
    IF a.linked_to \in DeclaredIds(elements)
    THEN layout_cache[a.linked_to][1] + layout_cache[a.linked_to][2] + a.y
    ELSE a.y

\* C14: a rendered text element with empty interpolated content and
\* autoHeight true or absent has made no draw call and is cached with its
\* resolved y and height 0; an element linked to it is rendered at
\* y_prev + 0 + own y.
C14_EmptyAutoText ==
    \A k \in 1..pos :
        LET a == elements[sorted[k]] IN
        EmptyAutoText(a) =>
           /\ CallsOf(sorted[k]) = <<>>
           /\ layout_cache[a.id] = <<ResolvedY(a), 0>>
           /\ \A j \in 1..pos :
                 LET b == elements[sorted[j]] IN
                 b.linked_to = a.id =>
                    /\ layout_cache[b.id][1] = layout_cache[a.id][1] + 0 + b.y
                    /\ \A n \in 1..Len(canvas) :
                          canvas[n].elem = sorted[j] => canvas[n].y = layout_cache[b.id][1]

\* C14 witness: an empty text element without autoHeight, itself linked to
\* the element before it, has been rendered, and so has the element linked
\* to it
C14_Witness ==
    /\ pc = "done" /\ pos = 3
    /\ EmptyAutoText(elements[2]) /\ elements[2].body.auto_height = <<>>
    /\ elements[2].linked_to = elements[1].id
    /\ elements[3].linked_to = elements[2].id
    /\ CallsOf(3) # <<>>

\* the measured height of the paragraph of a text element
TextHeight(a) == paragraph_height(a.body.chars, a.w, DefaultFontSize)

\* the paint origin the rule of verticalAlign gives
PaintY(a, actual_y) ==
    IF a.body.auto_height = Some(FALSE) /\ a.h > TextHeight(a)
    THEN CASE a.body.valign = Some("middle") -> actual_y + (a.h - TextHeight(a)) \div 2
           [] a.body.valign = Some("bottom") -> actual_y + (a.h - TextHeight(a))
           [] OTHER -> actual_y
    ELSE actual_y

\* C15: a rendered text element that is painted is painted once, at
\* actual_y, moved down by (h - text_height)/2 for middle and by
\* h - text_height for bottom when autoHeight is false and h > text_height,
\* and not moved in any other case.
C15_VerticalAlign ==
    \A k \in 1..pos :
        LET a == elements[sorted[k]] IN
        (a.body.kind = "text" /\ ~EmptyAutoText(a)) =>
           /\ Len(CallsOf(sorted[k])) = 1
           /\ CallsOf(sorted[k])[1].op = "paragraph"
           /\ CallsOf(sorted[k])[1].y = PaintY(a, layout_cache[a.id][1])

\* C15 witness: a text element with autoHeight false, h = 40 and a paragraph
\* of one line (12), itself linked to the element before it, has been painted
\* with verticalAlign middle, 14 below its actual_y
C15_Witness ==
    /\ pc = "done" /\ pos = 2
    /\ elements[2].linked_to = elements[1].id
    /\ elements[2].body.kind = "text"
    /\ elements[2].body.auto_height = Some(FALSE)
    /\ elements[2].body.valign = Some("middle")
    /\ elements[2].h = 40 /\ TextHeight(elements[2]) = 12
    /\ CallsOf(2) = <<[elem |-> 2, op |-> "paragraph", y |-> layout_cache["B"][1] + 14]>>
    /\ layout_cache["B"][1] = layout_cache["A"][1] + layout_cache["A"][2] + 2

\* C17 (as claimed): a text element with lineBreak = 0 is measured as one
\* line, on an unbounded width: with autoHeight its measured height is the
\* height of one line however long the content is.
C17_SingleLine ==
    \A k \in 1..pos :
        LET a == elements[sorted[k]] IN
        (a.body.kind = "text" /\ a.body.line_break = Some(0)
            /\ a.body.chars > 0 /\ a.body.auto_height \in {<<>>, Some(TRUE)})
        => layout_cache[a.id][2]
              = paragraph_height(a.body.chars, a.body.chars * DefaultFontSize, DefaultFontSize)

\* ---------------------------------------------------------------------------
\* Properties of the measured height (specification SpecKinds)

\* the elements the cache records with their declared height
DeclaredHeight(a) ==
    \/ a.body.kind \in {"line", "rect", "ellipse", "image", "barcode", "qrcode"}
    \/ a.body.kind = "text" /\ a.body.auto_height = Some(FALSE)

\* C22: the height the cache records is element.h for every rendered line,
\* rect, ellipse, image, barcode and qrcode element, whatever its props, and
\* for every text element with autoHeight false; a text element with
\* autoHeight true or absent records the height of its paragraph (0 when
\* empty) and a table the height of the rows it painted.
C22_DeclaredHeight ==
    \A k \in 1..pos :
        LET a == elements[sorted[k]]
            height == layout_cache[a.id][2]
        IN  /\ DeclaredHeight(a) => height = a.h
            /\ (a.body.kind = "text" /\ ~DeclaredHeight(a)) =>
                   height = IF a.body.chars = 0 THEN 0 ELSE TextHeight(a)
            /\ a.body.kind = "table" =>
                   height = IF CallsOf(sorted[k]) = <<>> THEN 0
                            ELSE CallsOf(sorted[k])[1].row_h

\* C22 witness: a QR code of an encodable value with h = 8 and size = 50 has
\* been painted 50 points a side and is cached with height 8, and the render
\* has gone on to the element linked to it
C22_Witness ==
    /\ pc = "done" /\ result.ok
    /\ \E i \in 1..Len(elements) :
          /\ elements[i].body.kind = "qrcode" /\ elements[i].body.content = "text"
          /\ elements[i].h = 8 /\ elements[i].body.size = Some(50)
          /\ Len(CallsOf(i)) = 1 /\ CallsOf(i)[1].size = 50
          /\ layout_cache[elements[i].id][2] = 8
          /\ \E j \in 1..Len(elements) : elements[j].linked_to = elements[i].id

\* ---------------------------------------------------------------------------
\* Properties of parse_color
\* ---------------------------------------------------------------------------

\* '#' followed by exactly six hexadecimal digits
IsHashHex6(s) ==
    Len(s) = 7 /\ s[1] = "#" /\ \A i \in 2..7 : IsHexDigit(s[i])

\* C16 (as claimed): parse_color returns (r, g, b) for '#' followed by six
\* hexadecimal digits, and black for every other string, a 7-character
\* string starting with '#' with a sign or a non-hex letter in it included.
C16_HexOrBlack ==
    cpc = "done" =>
        IF IsHashHex6(hex)
        THEN color = <<HexValue(SubSeq(hex, 2, 3)), HexValue(SubSeq(hex, 4, 5)),
                       HexValue(SubSeq(hex, 6, 7))>>
        ELSE color = <<0, 0, 0>>

\* ---------------------------------------------------------------------------
\* Properties of the Interpolator
\* ---------------------------------------------------------------------------

\* the dot-separated segments of a path
RECURSIVE Segments(_)
Segments(path) ==
    LET dots == {i \in 1..Len(path) : path[i] = "."} IN
    IF dots = {} THEN <<path>>
    ELSE LET d == CHOOSE i \in dots : \A j \in dots : i <= j
         IN  <<SubSeq(path, 1, d - 1)>> \o Segments(SubSeq(path, d + 1, Len(path)))

\* the value reached from v by one object key per segment
RECURSIVE Traverse(_, _)
Traverse(v, segs) ==
    IF segs = <<>> THEN [found |-> TRUE, v |-> v]
    ELSE IF HasKey(v, Head(segs)) THEN Traverse(v.m[Head(segs)], Tail(segs))
    ELSE [found |-> FALSE, v |-> JNull]

IsScalar(v) == v.t \in {"str", "num", "bool"}

Stringified(v) ==
    CASE v.t = "str" -> v.s
      [] v.t = "num" -> number_to_string(v.n)
      [] v.t = "bool" -> bool_to_string(v.b)
      [] OTHER -> <<>>

\* C6 (as claimed): a token {{ path }} whose path, traversed one object key
\* per dot-separated segment, reaches a scalar is replaced by that scalar
\* stringified, whitespace inside the braces being tolerated.
C6_PathTraversal ==
    \A pre \in Texts, suf \in Texts, path \in Paths, l \in 0..MaxPad, r \in 0..MaxPad :
        LET at == Traverse(data, Segments(path)) IN
        (ipc = "done" /\ template = pre \o Token(path, l, r) \o suf
            /\ at.found /\ IsScalar(at.v))
        => output = pre \o Stringified(at.v) \o suf

\* C7 (as claimed): a token whose path is missing, or reaches null, an object
\* or an array, is replaced by the empty string, a token whose path reaches a
\* scalar by that scalar (string as-is, number in decimal, boolean as
\* true/false), and the text outside the token is kept.
C7_MissingIsEmpty ==
    \A pre \in Texts, suf \in Texts, path \in Paths, l \in 0..MaxPad, r \in 0..MaxPad :
        LET at == Traverse(data, Segments(path)) IN
        (ipc = "done" /\ template = pre \o Token(path, l, r) \o suf)
        => /\ (~at.found \/ ~IsScalar(at.v)) => output = pre \o suf
           /\ (at.found /\ at.v.t = "str") => output = pre \o at.v.s \o suf
           /\ (at.found /\ at.v.t = "num") => output = pre \o number_to_string(at.v.n) \o suf
           /\ (at.found /\ at.v.t = "bool") => output = pre \o bool_to_string(at.v.b) \o suf

\* ---------------------------------------------------------------------------
\* Properties of draw_table
\* ---------------------------------------------------------------------------

\* the draw calls of cell texts of the table (element 1 of SpecDraw)
CellCalls == SelectSeq(canvas, LAMBDA c : c.elem = 1 /\ c.op = "cell_text")

CellPadding == unwrap_or(elements[1].body.table.cell_padding, DefaultCellPadding)

\* the largest height of a painted cell text of row r
RECURSIVE MaxPainted(_, _)
MaxPainted(r, n) ==
    IF n = 0 THEN 0
    ELSE Max(MaxPainted(r, n - 1),
             IF CellCalls[n].row = r THEN CellCalls[n].text_h ELSE 0)

TableRendered == pc \in {"rendering", "done"} /\ "A" \in DOMAIN layout_cache

\* C18 (as claimed): every header and data cell is measured at the width it
\* is painted at, the column width less 2*cellPadding, so that the height of
\* a row is the largest height of a painted cell text of the row plus
\* 2*cellPadding, and no painted cell text is higher than its row less
\* 2*cellPadding.
C18_CellMeasuredAsPainted ==
    TableRendered =>
        \A n \in 1..Len(CellCalls) :
            LET c == CellCalls[n] IN
            /\ c.row_h = MaxPainted(c.row, Len(CellCalls)) + 2 * CellPadding
            /\ c.text_h <= c.row_h - 2 * CellPadding

\* the rows the data expression of the table resolves to: the array reached
\* by one object key per segment of the trimmed expression, none otherwise
RowsOf(table) ==
    LET at == Traverse(data, Segments(trim_matches(table.data))) IN
    IF at.found /\ at.v.t = "arr" THEN at.v.a ELSE <<>>

HasHead(table) == table.show_head \in {<<>>, Some(1)}

\* the rows drawn, the header being row 0
RowsDrawn == {CellCalls[n].row : n \in 1..Len(CellCalls)}

RowY(r) == (CHOOSE c \in {CellCalls[n] : n \in 1..Len(CellCalls)} : c.row = r).row_y

RowH(r) == (CHOOSE c \in {CellCalls[n] : n \in 1..Len(CellCalls)} : c.row = r).row_h

RECURSIVE SumRowH(_)
SumRowH(rows) ==
    IF rows = {} THEN 0
    ELSE LET r == CHOOSE x \in rows : TRUE IN RowH(r) + SumRowH(rows \ {r})

PercentOf(col) == parse_or_zero(trim_end_matches(col.s))

\* remaining = max(0, base.w - sum of the declared fixed widths)
Remaining == remaining(columns, F(base_w))

RECURSIVE PercentSum(_)
PercentSum(n) ==
    IF n = 0 THEN 0
    ELSE PercentSum(n - 1)
         + (IF columns[n].shape = "percentage"
            THEN Mul(Remaining, PercentOf(columns[n]) \div 100) ELSE 0)

AutoCount == Cardinality({i \in 1..Len(columns) : columns[i].shape = "none"})

\* no column declares a zero width, Fixed(0) or "0%"
NoZeroDeclared ==
    \A i \in 1..Len(columns) :
        /\ columns[i].shape = "fixed" => columns[i].w # 0
        /\ columns[i].shape = "percentage" => PercentOf(columns[i]) # 0

\* C8 (as claimed): every column without a width gets
\* (remaining - sum of the percentage widths) / auto_count, and 0 when the
\* percentages consume all of remaining (stated for the tables in which no
\* column declares a zero width).
C8_AutoShareAfterPercent ==
    (tpc = "done" /\ NoZeroDeclared) =>
        \A i \in 1..Len(columns) :
            columns[i].shape = "none" =>
                col_widths[i] * AutoCount = Max(0, Remaining - PercentSum(Len(columns)))

\* C9 (as claimed): a column declared Fixed(w), w >= 0, resolves to w, and a
\* column declared p%, 0 <= p <= 100, resolves to remaining * p / 100,
\* whatever the other columns are.
C9_ClassByShape ==
    tpc = "done" =>
        \A i \in 1..Len(columns) :
            /\ (columns[i].shape = "fixed" /\ columns[i].w >= 0)
                  => col_widths[i] = F(columns[i].w)
            /\ (columns[i].shape = "percentage" /\ PercentOf(columns[i]) >= 0
                    /\ PercentOf(columns[i]) <= F(100))
                  => col_widths[i] = Mul(Remaining, PercentOf(columns[i]) \div 100)

====
